---- MODULE Spec2Model ----
(***************************************************************************)
(* Model of the dual DEX hedging bot (src/dual_dex_bot.py): main(), run(), *)
(* the startup sweep, the trading cycle, the close step and cleanup.       *)
(* Venue answers (order accepted / rejected / exception, quotes, account   *)
(* queries) are inputs drawn nondeterministically.                         *)
(* Position sizes reported by Lighter are integers in units of 1e-6.       *)
(***************************************************************************)
EXTENDS Integers, Sequences, FiniteSets, TLC

\* ---- bounds of the model ----
MaxCycles == 2
MaxPos == 2
MaxSize == 2
MaxEquity == 3

\* ---- program constants ----
ALLOWED_TRADING_PAIRS == <<"BTC", "ETH">>
test_amounts == <<"0.001", "0.01", "0.1", "1.0">>
EPSILON == 1

Symbols == {ALLOWED_TRADING_PAIRS[i] : i \in DOMAIN ALLOWED_TRADING_PAIRS}
PosSizes == (0 - MaxPos)..MaxPos
Sizes == 1..MaxSize
Abs(x) == IF x < 0 THEN 0 - x ELSE x

VARIABLES
    pc,                        \* position of the single control flow
    running,                   \* DualDexTradingBot.running
    signalled,                 \* history: a shutdown signal has been delivered
    close_on_start,            \* CLOSE_EXISTING_POSITIONS_ON_START
    lighter_available_markets, \* symbols of the loaded Lighter markets
    lighter_position,          \* PositionManager.lighter_position
    pacifica_position,         \* PositionManager.pacifica_position
    lighter_stats,             \* TradingStats.lighter_stats
    pacifica_stats,            \* TradingStats.pacifica_stats
    cycle_stats,               \* TradingStats.cycle_stats
    symbol, lighter_side, pacifica_side,   \* locals of run_trading_cycle
    lighter_size, pacifica_size,
    lighter_success, pacifica_success,
    caller,                    \* who called _close_all_positions
    open_positions,            \* startup sweep: Lighter positions still to close
    cp,                        \* startup sweep: the close procedure in progress
    probe,                     \* startup sweep: the Pacifica probe in progress
    positions_found,           \* local of _close_pacifica_positions
    lastOrder,                 \* history: the order issued most recently
    trace,                     \* history: events of the current cycle / cleanup
    statsAtStart,              \* history: cycle_stats when the cycle began
    tradesAtStart,             \* history: trade stats when the cycle began
    init_state,                \* which venue connections initialize() has made
    cycles,                    \* history: number of cycles started
    calc,                      \* the sizing and order-amount computation
    venue_open                 \* history: legs opened by cycles, still open at the venue

vars == <<pc, running, signalled, close_on_start, lighter_available_markets,
          lighter_position, pacifica_position, lighter_stats, pacifica_stats,
          cycle_stats, symbol, lighter_side, pacifica_side, lighter_size,
          pacifica_size, lighter_success, pacifica_success, caller,
          open_positions, cp, probe, positions_found, lastOrder, trace,
          statsAtStart, tradesAtStart, init_state, cycles, calc,
          venue_open>>

ledgerVars == <<lighter_position, pacifica_position>>
statsVars == <<lighter_stats, pacifica_stats, cycle_stats>>
cycleLocals == <<symbol, lighter_side, pacifica_side, lighter_size,
                 pacifica_size, lighter_success, pacifica_success>>
sweepVars == <<open_positions, cp, probe, positions_found>>
configVars == <<close_on_start, lighter_available_markets, init_state>>

\* ---- values ----
NoPosition == [present |-> FALSE]
NoOrder == [venue |-> "none"]
IdleCp == [active |-> FALSE]
IdleProbe == [active |-> FALSE]
ZeroTradeStats == [trades |-> 0, successful |-> 0, failed |-> 0]
ZeroCycleStats == [total_cycles |-> 0, successful_cycles |-> 0, failed_cycles |-> 0]

\* ---- TradingStats ----
record_trade_as_success(s, success) ==
    [s EXCEPT !.trades = @ + 1, !.successful = @ + 1]

record_trade(s, success) ==
    [s EXCEPT !.trades = @ + 1,
              !.successful = IF success THEN @ + 1 ELSE @,
              !.failed = IF success THEN @ ELSE @ + 1]

record_cycle_total_only(s, success) ==
    [s EXCEPT !.total_cycles = @ + 1,
              !.successful_cycles = IF success THEN @ + 1 ELSE @]

record_cycle(s, success) ==
    [s EXCEPT !.total_cycles = @ + 1,
              !.successful_cycles = IF success THEN @ + 1 ELSE @,
              !.failed_cycles = IF success THEN @ ELSE @ + 1]

\* ---- PositionManager ----
record_position(sym, side, amount) ==
    [present |-> TRUE, symbol |-> sym, side |-> side, amount |-> amount]

clear_positions_partial(lp, pp) == [lighter |-> NoPosition, pacifica |-> pp]
clear_positions(lp, pp) == [lighter |-> NoPosition, pacifica |-> NoPosition]

\* ---- orders as the code builds them ----
Order(venue, purpose, sym, side, reduce_only) ==
    [venue |-> venue, purpose |-> purpose, symbol |-> sym, side |-> side,
     reduce_only |-> reduce_only]

AskBid(is_ask) == IF is_ask THEN "ask" ELSE "bid"

ProgramInit ==
    /\ pc = "init_lighter"
    /\ running = FALSE
    /\ signalled = FALSE
    /\ close_on_start \in BOOLEAN
    /\ lighter_available_markets = {}
    /\ lighter_position = NoPosition
    /\ pacifica_position = NoPosition
    /\ lighter_stats = ZeroTradeStats
    /\ pacifica_stats = ZeroTradeStats
    /\ cycle_stats = ZeroCycleStats
    /\ symbol = "none"
    /\ lighter_side = "none"
    /\ pacifica_side = "none"
    /\ lighter_size = 0
    /\ pacifica_size = 0
    /\ lighter_success = FALSE
    /\ pacifica_success = FALSE
    /\ caller = "none"
    /\ open_positions = <<>>
    /\ cp = IdleCp
    /\ probe = IdleProbe
    /\ positions_found = 0
    /\ lastOrder = NoOrder
    /\ trace = <<>>
    /\ statsAtStart = ZeroCycleStats
    /\ tradesAtStart = [lighter |-> ZeroTradeStats, pacifica |-> ZeroTradeStats]
    /\ init_state = "none"
    /\ cycles = 0
    /\ venue_open = [lighter |-> 0, pacifica |-> 0]

IdleCalc == [stage |-> "idle"]

Init == ProgramInit /\ calc = IdleCalc

\* ---- main.signal_handler ----
SignalRaisesInterrupt ==
    /\ pc # "done"
    /\ running' = FALSE
    /\ signalled' = TRUE
    /\ pc' = IF pc \in {"cleanup_main", "done"} \/ caller = "cleanup_main"
             THEN pc ELSE "cleanup_run"
    /\ UNCHANGED <<configVars, ledgerVars, statsVars, cycleLocals, caller,
                   sweepVars, lastOrder, trace, statsAtStart, tradesAtStart,
                   cycles, calc,
                   venue_open>>

Signal ==
    /\ pc # "done"
    /\ running' = FALSE
    /\ signalled' = TRUE
    /\ UNCHANGED <<pc, configVars, ledgerVars, statsVars, cycleLocals, caller,
                   sweepVars, lastOrder, trace, statsAtStart, tradesAtStart, cycles, calc,
                   venue_open>>

\* ---- initialize ----
OnInitFailureSwallowed == "check_existing"
OnInitFailure == "cleanup_run"

InitializeLighter ==
    /\ pc = "init_lighter"
    /\ \E loaded \in SUBSET Symbols :
         /\ lighter_available_markets' = loaded
         /\ \E ok \in BOOLEAN :
              IF ok /\ loaded # {}
              THEN pc' = "init_pacifica" /\ init_state' = "lighter"
              ELSE pc' = OnInitFailure /\ init_state' = "failed"
    /\ UNCHANGED <<running, signalled, close_on_start, ledgerVars, statsVars,
                   cycleLocals, caller, sweepVars, lastOrder, trace,
                   statsAtStart, tradesAtStart, cycles, calc,
                   venue_open>>

InitializePacifica ==
    /\ pc = "init_pacifica"
    /\ \E ok \in BOOLEAN :
         IF ok
         THEN pc' = "check_existing" /\ init_state' = "both"
         ELSE pc' = OnInitFailure /\ init_state' = "failed"
    /\ UNCHANGED <<running, signalled, close_on_start,
                   lighter_available_markets, ledgerVars, statsVars,
                   cycleLocals, caller, sweepVars, lastOrder, trace,
                   statsAtStart, tradesAtStart, cycles, calc,
                   venue_open>>

\* ---- startup sweep ----
CheckAndCloseExistingPositionsAlways ==
    /\ pc = "check_existing"
    /\ pc' = "swL_query"
    /\ UNCHANGED <<running, signalled, configVars, ledgerVars, statsVars,
                   cycleLocals, caller, sweepVars, lastOrder, trace,
                   statsAtStart, tradesAtStart, cycles, calc,
                   venue_open>>

CheckAndCloseExistingPositions ==
    /\ pc = "check_existing"
    /\ pc' = IF close_on_start THEN "swL_query" ELSE "set_running"
    /\ UNCHANGED <<running, signalled, configVars, ledgerVars, statsVars,
                   cycleLocals, caller, sweepVars, lastOrder, trace,
                   statsAtStart, tradesAtStart, cycles, calc,
                   venue_open>>

IsOpenNonZero(size) == size # 0
IsOpen(size) == Abs(size) > EPSILON

RECURSIVE OpenOf(_, _)
OpenOf(account, i) ==
    IF i > Len(ALLOWED_TRADING_PAIRS) THEN <<>>
    ELSE LET m == ALLOWED_TRADING_PAIRS[i]
             rest == OpenOf(account, i + 1)
         IN IF IsOpen(account[m])
            THEN <<[market |-> m, position |-> account[m]]>> \o rest
            ELSE rest

CloseLighterPositions ==
    /\ pc = "swL_query"
    /\ \/ \E resp \in {"exception", "no_account", "no_positions"} :
            open_positions' = <<>>
       \/ \E account \in [Symbols -> PosSizes] :
            open_positions' = OpenOf(account, 1)
    /\ pc' = "swL_next"
    /\ UNCHANGED <<running, signalled, configVars, ledgerVars, statsVars,
                   cycleLocals, caller, cp, probe, positions_found, lastOrder,
                   trace, statsAtStart, tradesAtStart, cycles, calc,
                   venue_open>>

NewCp(pos) ==
    [active |-> TRUE, market |-> pos.market, original |-> pos.position,
     remaining |-> pos.position, closeOrders |-> 0, flips |-> 0,
     verifies |-> 0, firstSide |-> "none", retrySide |-> "none",
     report |-> "none"]

FirstProbe == [active |-> TRUE, sym |-> 1, side |-> "ask", amt |-> 1,
               orders |-> 0]

CloseLighterPositionsNext ==
    /\ pc = "swL_next"
    /\ IF open_positions = <<>>
       THEN /\ pc' = "swP_probe"
            /\ cp' = IdleCp
            /\ probe' = FirstProbe
            /\ UNCHANGED open_positions
       ELSE /\ pc' = "swL_close"
            /\ cp' = NewCp(Head(open_positions))
            /\ open_positions' = Tail(open_positions)
            /\ UNCHANGED probe
    /\ UNCHANGED <<running, signalled, configVars, ledgerVars, statsVars,
                   cycleLocals, caller, positions_found, lastOrder, trace,
                   statsAtStart, tradesAtStart, cycles, calc,
                   venue_open>>

LighterOutcomes == {"no_details", "no_price", "error", "ok", "exception"}
Issued(out) == out \in {"error", "ok", "exception"}

FirstCloseIsAsk(position_size) == position_size > 0

SweepCloseOrder(market, is_ask) ==
    Order("lighter", "sweep_close", market, AskBid(is_ask), TRUE)

CloseLighterPosition ==
    /\ pc = "swL_close"
    /\ \E out \in LighterOutcomes :
         LET is_ask == FirstCloseIsAsk(cp.original) IN
         /\ IF Issued(out)
            THEN /\ lastOrder' = SweepCloseOrder(cp.market, is_ask)
                 /\ cp' = [cp EXCEPT !.closeOrders = @ + 1,
                                     !.firstSide = AskBid(is_ask)]
            ELSE UNCHANGED <<lastOrder, cp>>
         /\ pc' = IF out = "ok" THEN "swL_verify" ELSE "swL_next"
    /\ UNCHANGED <<running, signalled, configVars, ledgerVars, statsVars,
                   cycleLocals, caller, open_positions, probe, positions_found,
                   trace, statsAtStart, tradesAtStart, cycles, calc,
                   venue_open>>

VerifyLighterPositionClosed ==
    /\ pc = "swL_verify"
    /\ \/ /\ cp' = [cp EXCEPT !.verifies = @ + 1, !.report = "error"]
          /\ pc' = "swL_next"
       \/ \E resp \in {"no_account", "no_positions", "no_entry"} :
            /\ cp' = [cp EXCEPT !.verifies = @ + 1, !.remaining = 0,
                                !.report = "Closed"]
            /\ pc' = "swL_next"
       \/ \E current_size \in PosSizes :
            IF IsOpen(current_size)
            THEN /\ cp' = [cp EXCEPT !.verifies = @ + 1,
                                     !.remaining = current_size]
                 /\ pc' = "swL_flip"
            ELSE /\ cp' = [cp EXCEPT !.verifies = @ + 1,
                                     !.remaining = current_size,
                                     !.report = "Closed"]
                 /\ pc' = "swL_next"
    /\ UNCHANGED <<running, signalled, configVars, ledgerVars, statsVars,
                   cycleLocals, caller, open_positions, probe, positions_found,
                   lastOrder, trace, statsAtStart, tradesAtStart, cycles, calc,
                   venue_open>>

OppositeCloseIsAsk(position_size) == position_size < 0

FlipRetryOrder(market, is_ask) ==
    Order("lighter", "flip_retry", market, AskBid(is_ask), TRUE)

AfterOppositeRetried == "swL_verify"
AfterOpposite == "swL_next"

CloseLighterPositionOpposite ==
    /\ pc = "swL_flip"
    /\ \E out \in LighterOutcomes :
         LET is_ask == OppositeCloseIsAsk(cp.remaining) IN
         IF Issued(out)
         THEN /\ lastOrder' = FlipRetryOrder(cp.market, is_ask)
              /\ cp' = [cp EXCEPT !.closeOrders = @ + 1, !.flips = @ + 1,
                                  !.retrySide = AskBid(is_ask),
                                  !.report = "Closed"]
         ELSE /\ cp' = [cp EXCEPT !.report = "Closed"]
              /\ UNCHANGED lastOrder
    /\ pc' = AfterOpposite
    /\ UNCHANGED <<running, signalled, configVars, ledgerVars, statsVars,
                   cycleLocals, caller, open_positions, probe, positions_found,
                   trace, statsAtStart, tradesAtStart, cycles, calc,
                   venue_open>>

\* ---- startup sweep: heuristic Pacifica probing ----
PacificaOutcomes == {"ok", "rejected"}

ProbeOrder(purpose, sym, side) == Order("pacifica", purpose, sym, side, TRUE)

OppositeSide(side) == IF side = "bid" THEN "ask" ELSE "bid"

NextProbeRepeats(p) == [p EXCEPT !.orders = 0]

\* the loops of _close_pacifica_positions: for symbol, for amount (ask),
\* for amount (bid)
NextProbe(p) ==
    IF p.amt < Len(test_amounts)
    THEN [p EXCEPT !.amt = @ + 1, !.orders = 0]
    ELSE IF p.side = "ask"
         THEN [p EXCEPT !.side = "bid", !.amt = 1, !.orders = 0]
         ELSE IF p.sym < Len(ALLOWED_TRADING_PAIRS)
              THEN [p EXCEPT !.sym = @ + 1, !.side = "ask", !.amt = 1,
                             !.orders = 0]
              ELSE IdleProbe

\* return of _attempt_close_pacifica_position into the loop
ProbeReturn(closed) ==
    LET np == NextProbe(probe) IN
    /\ probe' = np
    /\ IF np.active
       THEN /\ pc' = "swP_probe"
            /\ positions_found' = IF closed THEN positions_found + 1
                                            ELSE positions_found
       ELSE /\ pc' = "set_running"
            /\ positions_found' = 0

AttemptClosePacificaPosition ==
    /\ pc = "swP_probe"
    /\ lastOrder' = ProbeOrder("probe", ALLOWED_TRADING_PAIRS[probe.sym],
                               probe.side)
    /\ \E out \in PacificaOutcomes :
         IF out = "ok"
         THEN /\ pc' = "swP_test"
              /\ probe' = [probe EXCEPT !.orders = @ + 1]
              /\ UNCHANGED positions_found
         ELSE ProbeReturn(FALSE)
    /\ UNCHANGED <<running, signalled, configVars, ledgerVars, statsVars,
                   cycleLocals, caller, open_positions, cp, trace,
                   statsAtStart, tradesAtStart, cycles, calc,
                   venue_open>>

AttemptClosePacificaTest ==
    /\ pc = "swP_test"
    /\ lastOrder' = ProbeOrder("probe_test", ALLOWED_TRADING_PAIRS[probe.sym],
                               probe.side)
    /\ \E out \in {"ok", "no_position_found", "rejected"} :
         CASE out = "ok" ->
                /\ pc' = "swP_opposite"
                /\ probe' = [probe EXCEPT !.orders = @ + 1]
                /\ UNCHANGED positions_found
           [] out = "no_position_found" -> ProbeReturn(TRUE)
           [] OTHER -> ProbeReturn(FALSE)
    /\ UNCHANGED <<running, signalled, configVars, ledgerVars, statsVars,
                   cycleLocals, caller, open_positions, cp, trace,
                   statsAtStart, tradesAtStart, cycles, calc,
                   venue_open>>

AttemptClosePacificaOpposite ==
    /\ pc = "swP_opposite"
    /\ lastOrder' = ProbeOrder("probe_opposite",
                               ALLOWED_TRADING_PAIRS[probe.sym],
                               OppositeSide(probe.side))
    /\ \E out \in PacificaOutcomes : ProbeReturn(out = "ok")
    /\ UNCHANGED <<running, signalled, configVars, ledgerVars, statsVars,
                   cycleLocals, caller, open_positions, cp, trace,
                   statsAtStart, tradesAtStart, cycles, calc,
                   venue_open>>

\* ---- run: the main loop ----
SetRunning ==
    /\ pc = "set_running"
    /\ running' = TRUE
    /\ pc' = "loop"
    /\ UNCHANGED <<signalled, configVars, ledgerVars, statsVars, cycleLocals,
                   caller, sweepVars, lastOrder, trace, statsAtStart, tradesAtStart, cycles, calc,
                   venue_open>>

LoopExit ==
    /\ pc = "loop"
    /\ ~running
    /\ pc' = "cleanup_run"
    /\ UNCHANGED <<running, signalled, configVars, ledgerVars, statsVars,
                   cycleLocals, caller, sweepVars, lastOrder, trace,
                   statsAtStart, tradesAtStart, cycles, calc,
                   venue_open>>

\* ---- run_trading_cycle ----
AssignPacificaSideSame(side) == side
AssignPacificaSide(side) == IF side = "buy" THEN "sell" ELSE "buy"

RunTradingCycleStart ==
    /\ pc = "loop"
    /\ running
    /\ cycles < MaxCycles
    /\ cycles' = cycles + 1
    /\ statsAtStart' = cycle_stats
    /\ tradesAtStart' = [lighter |-> lighter_stats, pacifica |-> pacifica_stats]
    /\ cycle_stats' = record_cycle(cycle_stats, FALSE)
    /\ trace' = <<"record_cycle_failed">>
    /\ \E sym \in Symbols, side \in {"buy", "sell"} :
         /\ symbol' = sym
         /\ lighter_side' = side
         /\ pacifica_side' = AssignPacificaSide(side)
         /\ pc' = IF sym \in lighter_available_markets THEN "c_details"
                                                        ELSE "wait"
    /\ UNCHANGED <<running, signalled, configVars, ledgerVars, lighter_stats,
                   pacifica_stats, lighter_size, pacifica_size,
                   lighter_success, pacifica_success, caller, sweepVars,
                   lastOrder, calc,
                   venue_open>>

GetMarketDetails ==
    /\ pc = "c_details"
    /\ \E found \in BOOLEAN : pc' = IF found THEN "c_lighter_price" ELSE "wait"
    /\ UNCHANGED <<running, signalled, configVars, ledgerVars, statsVars,
                   cycleLocals, caller, sweepVars, lastOrder, trace,
                   statsAtStart, tradesAtStart, cycles, calc,
                   venue_open>>

GetLighterPrice ==
    /\ pc = "c_lighter_price"
    /\ \E found \in BOOLEAN :
         IF found
         THEN pc' = "c_pacifica_price" /\ UNCHANGED trace
         ELSE pc' = "wait" /\ trace' = Append(trace, "quote_unavailable")
    /\ UNCHANGED <<running, signalled, configVars, ledgerVars, statsVars,
                   cycleLocals, caller, sweepVars, lastOrder,
                   statsAtStart, tradesAtStart, cycles, calc,
                   venue_open>>

\* _get_pacifica_market_price always returns a price (feed, static table or
\* 100.0), then _calculate_hedged_position_sizes yields the two sizes
PriceSources == {"websocket", "mock", "exception"}

\* the price is never None, so the check at lines 919-922 never returns
AfterPacificaPriceAborts == "wait"
AfterPacificaPrice == "open_lighter"

GetPacificaPriceAndSizes ==
    /\ pc = "c_pacifica_price"
    /\ \E source \in PriceSources :
         trace' = IF source = "websocket" THEN trace
                  ELSE Append(trace, "pacifica_fallback")
    /\ \E ls \in Sizes, ps \in Sizes :
         /\ lighter_size' = ls
         /\ pacifica_size' = ps
    /\ pc' = AfterPacificaPrice
    /\ UNCHANGED <<running, signalled, configVars, ledgerVars, statsVars,
                   symbol, lighter_side, pacifica_side, lighter_success,
                   pacifica_success, caller, sweepVars, lastOrder,
                   statsAtStart, tradesAtStart, cycles, calc, venue_open>>

\* a leg is open at the venue once its open order was accepted and until a
\* close order for it was accepted
VenueAfterOpen(v, venue, accepted) ==
    IF accepted THEN [v EXCEPT ![venue] = @ + 1] ELSE v
VenueAfterClose(v, venue, accepted) ==
    IF accepted /\ v[venue] > 0 THEN [v EXCEPT ![venue] = @ - 1] ELSE v

\* the ledger is written only in the branch where the venue accepted
LedgerAfterOpenAlways(accepted, old, new) == new
LedgerAfterOpen(accepted, old, new) == IF accepted THEN new ELSE old

LighterOpenOrder(sym, side) ==
    Order("lighter", "open", sym, AskBid(side = "sell"), FALSE)

PlaceLighterOrder ==
    /\ pc = "open_lighter"
    /\ \E out \in LighterOutcomes :
         /\ IF Issued(out)
            THEN /\ lastOrder' = LighterOpenOrder(symbol, lighter_side)
                 /\ trace' = Append(trace, "open_lighter")
                 /\ lighter_stats' = record_trade(lighter_stats, out = "ok")
            ELSE /\ trace' = IF out = "no_price"
                             THEN Append(trace, "quote_unavailable")
                             ELSE trace
                 /\ UNCHANGED <<lastOrder, lighter_stats>>
         /\ lighter_success' = (out = "ok")
         /\ venue_open' = VenueAfterOpen(venue_open, "lighter", out = "ok")
         /\ lighter_position' =
              LedgerAfterOpen(out = "ok", lighter_position,
                  record_position(symbol, lighter_side, lighter_size))
    /\ pc' = "open_pacifica"
    /\ UNCHANGED <<running, signalled, configVars, pacifica_position,
                   pacifica_stats, cycle_stats, symbol, lighter_side,
                   pacifica_side, lighter_size, pacifica_size,
                   pacifica_success, caller, sweepVars, statsAtStart, tradesAtStart, cycles, calc>>

PacificaOpenOrder(sym, side) ==
    Order("pacifica", "open", sym, IF side = "sell" THEN "ask" ELSE "bid",
          FALSE)

PlacePacificaOrder ==
    /\ pc = "open_pacifica"
    /\ lastOrder' = PacificaOpenOrder(symbol, pacifica_side)
    /\ trace' = Append(trace, "open_pacifica")
    /\ \E out \in PacificaOutcomes :
         /\ pacifica_stats' = record_trade(pacifica_stats, out = "ok")
         /\ pacifica_success' = (out = "ok")
         /\ venue_open' = VenueAfterOpen(venue_open, "pacifica", out = "ok")
         /\ pacifica_position' =
              LedgerAfterOpen(out = "ok", pacifica_position,
                  record_position(symbol, pacifica_side, pacifica_size))
    /\ pc' = "branch"
    /\ UNCHANGED <<running, signalled, configVars, lighter_position,
                   lighter_stats, cycle_stats, symbol, lighter_side,
                   pacifica_side, lighter_size, pacifica_size,
                   lighter_success, caller, sweepVars, statsAtStart, tradesAtStart, cycles, calc>>

EitherPlaced(ls, ps) == ls \/ ps
BothPlaced(ls, ps) == ls /\ ps

HoldPositionsAfterLighter ==
    /\ pc = "open_pacifica"
    /\ lighter_success
    /\ trace' = Append(trace, "hold")
    /\ caller' = "cycle_ok"
    /\ pc' = "ca_lighter"
    /\ UNCHANGED <<running, signalled, configVars, ledgerVars, statsVars,
                   cycleLocals, sweepVars, lastOrder, statsAtStart,
                   tradesAtStart, cycles, calc,
                   venue_open>>

HoldPositions ==
    /\ pc = "branch"
    /\ BothPlaced(lighter_success, pacifica_success)
    /\ trace' = Append(trace, "hold")
    /\ caller' = "cycle_ok"
    /\ pc' = "ca_lighter"
    /\ UNCHANGED <<running, signalled, configVars, ledgerVars, statsVars,
                   cycleLocals, sweepVars, lastOrder, statsAtStart, tradesAtStart, cycles, calc,
                   venue_open>>

CleanUpPartialSkipsClose ==
    /\ pc = "branch"
    /\ ~BothPlaced(lighter_success, pacifica_success)
    /\ pc' = "wait"
    /\ UNCHANGED <<running, signalled, configVars, ledgerVars, statsVars,
                   cycleLocals, caller, sweepVars, lastOrder, trace,
                   statsAtStart, tradesAtStart, cycles, calc,
                   venue_open>>

CleanUpPartial ==
    /\ pc = "branch"
    /\ ~BothPlaced(lighter_success, pacifica_success)
    /\ caller' = "cycle_failed"
    /\ pc' = "ca_lighter"
    /\ UNCHANGED <<running, signalled, configVars, ledgerVars, statsVars,
                   cycleLocals, sweepVars, lastOrder, trace, statsAtStart, tradesAtStart,
                   cycles, calc,
                   venue_open>>

RecordCycleSuccessIfClosed ==
    /\ pc = "record_success"
    /\ IF venue_open.lighter = 0 /\ venue_open.pacifica = 0
       THEN /\ cycle_stats' = record_cycle(cycle_stats, TRUE)
            /\ trace' = Append(trace, "record_cycle_success")
       ELSE UNCHANGED <<cycle_stats, trace>>
    /\ pc' = "wait"
    /\ UNCHANGED <<running, signalled, configVars, ledgerVars, lighter_stats,
                   pacifica_stats, cycleLocals, caller, sweepVars, lastOrder,
                   statsAtStart, tradesAtStart, cycles, calc,
                   venue_open>>

RecordCycleSuccess ==
    /\ pc = "record_success"
    /\ cycle_stats' = record_cycle(cycle_stats, TRUE)
    /\ trace' = Append(trace, "record_cycle_success")
    /\ pc' = "wait"
    /\ UNCHANGED <<running, signalled, configVars, ledgerVars, lighter_stats,
                   pacifica_stats, cycleLocals, caller, sweepVars, lastOrder,
                   statsAtStart, tradesAtStart, cycles, calc,
                   venue_open>>

\* the inter-cycle sleep of run(); the locals of the finished cycle are gone
WaitBetweenCycles ==
    /\ pc = "wait"
    /\ pc' = "loop"
    /\ symbol' = "none"
    /\ lighter_side' = "none"
    /\ pacifica_side' = "none"
    /\ lighter_size' = 0
    /\ pacifica_size' = 0
    /\ lighter_success' = FALSE
    /\ pacifica_success' = FALSE
    /\ trace' = <<>>
    /\ statsAtStart' = cycle_stats
    /\ tradesAtStart' = [lighter |-> lighter_stats, pacifica |-> pacifica_stats]
    /\ UNCHANGED <<running, signalled, configVars, ledgerVars, statsVars,
                   caller, sweepVars, lastOrder, cycles, calc,
                   venue_open>>

\* ---- _close_all_positions ----
CloseSideSame(side) == IF side = "buy" THEN "bid" ELSE "ask"
CloseSide(side) == IF side = "buy" THEN "ask" ELSE "bid"

LighterCloseOrderNotReduceOnly(position_info) ==
    Order("lighter", "close", position_info.symbol,
          AskBid(position_info.side = "buy"), FALSE)
LighterCloseOrder(position_info) ==
    Order("lighter", "close", position_info.symbol,
          AskBid(position_info.side = "buy"), TRUE)

CloseLighterPositionByInfoAborts ==
    /\ pc = "ca_lighter"
    /\ IF lighter_position.present
       THEN \E out \in LighterOutcomes :
              /\ venue_open' = VenueAfterClose(venue_open, "lighter",
                                               out = "ok")
              /\ IF out = "ok"
                 THEN /\ lastOrder' = LighterCloseOrder(lighter_position)
                      /\ trace' = trace \o <<"attempt_close_lighter",
                                              "close_lighter">>
                      /\ pc' = "ca_pacifica"
                 ELSE /\ trace' = Append(trace, "attempt_close_lighter")
                      /\ pc' = "ca_clear"
                      /\ UNCHANGED lastOrder
       ELSE pc' = "ca_pacifica" /\ UNCHANGED <<lastOrder, trace, venue_open>>
    /\ UNCHANGED <<running, signalled, configVars, ledgerVars, statsVars,
                   cycleLocals, caller, sweepVars, statsAtStart,
                   tradesAtStart, cycles, calc>>

CloseLighterPositionByInfo ==
    /\ pc = "ca_lighter"
    /\ IF lighter_position.present
       THEN \E out \in LighterOutcomes :
              /\ venue_open' = VenueAfterClose(venue_open, "lighter",
                                               out = "ok")
              /\ IF Issued(out)
                 THEN /\ lastOrder' = LighterCloseOrder(lighter_position)
                      /\ trace' = trace \o <<"attempt_close_lighter",
                                              "close_lighter">>
                 ELSE /\ trace' = Append(trace, "attempt_close_lighter")
                      /\ UNCHANGED lastOrder
       ELSE UNCHANGED <<lastOrder, trace, venue_open>>
    /\ pc' = "ca_pacifica"
    /\ UNCHANGED <<running, signalled, configVars, ledgerVars, statsVars,
                   cycleLocals, caller, sweepVars, statsAtStart,
                   tradesAtStart, cycles, calc>>

PacificaCloseOrder(position_info) ==
    Order("pacifica", "close", position_info.symbol,
          CloseSide(position_info.side), TRUE)

ClosePacificaPositionByInfo ==
    /\ pc = "ca_pacifica"
    /\ IF pacifica_position.present
       THEN /\ lastOrder' = PacificaCloseOrder(pacifica_position)
            /\ trace' = Append(trace, "close_pacifica")
            /\ \E out \in PacificaOutcomes :
                 venue_open' = VenueAfterClose(venue_open, "pacifica",
                                               out = "ok")
       ELSE UNCHANGED <<lastOrder, trace, venue_open>>
    /\ pc' = "ca_clear"
    /\ UNCHANGED <<running, signalled, configVars, ledgerVars, statsVars,
                   cycleLocals, caller, sweepVars, statsAtStart,
                   tradesAtStart, cycles, calc>>

AfterCloseAllFatal(c) ==
    CASE c = "cycle_ok" -> "record_success"
      [] c = "cycle_failed" -> "cleanup_run"
      [] c = "cleanup_run" -> "cleanup_main"
      [] OTHER -> "done"

AfterCloseAll(c) ==
    CASE c = "cycle_ok" -> "record_success"
      [] c = "cycle_failed" -> "wait"
      [] c = "cleanup_run" -> "cleanup_main"
      [] OTHER -> "done"

ClearPositionsKeepsLedger ==
    /\ pc = "ca_clear"
    /\ trace' = Append(trace, "clear")
    /\ pc' = AfterCloseAll(caller)
    /\ caller' = "none"
    /\ UNCHANGED <<running, signalled, configVars, ledgerVars, statsVars,
                   cycleLocals, sweepVars, lastOrder, statsAtStart,
                   tradesAtStart, cycles, calc,
                   venue_open>>

ClearPositions ==
    /\ pc = "ca_clear"
    /\ LET cleared == clear_positions(lighter_position, pacifica_position) IN
         /\ lighter_position' = cleared.lighter
         /\ pacifica_position' = cleared.pacifica
    /\ trace' = Append(trace, "clear")
    /\ pc' = AfterCloseAll(caller)
    /\ caller' = "none"
    /\ UNCHANGED <<running, signalled, configVars, statsVars, cycleLocals,
                   sweepVars, lastOrder, statsAtStart, tradesAtStart, cycles, calc,
                   venue_open>>

\* ---- cleanup: once from the finally of run(), once from that of main() ----
Cleanup ==
    /\ pc \in {"cleanup_run", "cleanup_main"}
    /\ caller' = pc
    /\ trace' = <<>>
    /\ pc' = "ca_lighter"
    /\ UNCHANGED <<running, signalled, configVars, ledgerVars, statsVars,
                   cycleLocals, sweepVars, lastOrder, statsAtStart, tradesAtStart, cycles, calc,
                   venue_open>>

Next ==
    \/ Signal
    \/ InitializeLighter
    \/ InitializePacifica
    \/ CheckAndCloseExistingPositions
    \/ CloseLighterPositions
    \/ CloseLighterPositionsNext
    \/ CloseLighterPosition
    \/ VerifyLighterPositionClosed
    \/ CloseLighterPositionOpposite
    \/ AttemptClosePacificaPosition
    \/ AttemptClosePacificaTest
    \/ AttemptClosePacificaOpposite
    \/ SetRunning
    \/ LoopExit
    \/ RunTradingCycleStart
    \/ GetMarketDetails
    \/ GetLighterPrice
    \/ GetPacificaPriceAndSizes
    \/ PlaceLighterOrder
    \/ PlacePacificaOrder
    \/ HoldPositions
    \/ CleanUpPartial
    \/ RecordCycleSuccess
    \/ WaitBetweenCycles
    \/ CloseLighterPositionByInfo
    \/ ClosePacificaPositionByInfo
    \/ ClearPositions
    \/ Cleanup

Spec == Init /\ [][Next]_vars

\* the event loop runs the one coroutine of the bot whenever it can take a
\* step; every venue request has a timeout
FairSpec == Spec /\ WF_vars(Next)

\* ---- sizing and order amounts (pure computations) ----
\* Money is in cents, sizes are in units of 1e-6 (the minimum size of
\* _calculate_hedged_position_sizes), prices are in whole dollars.
ACCOUNT_BALANCE == 500
MIN_POSITION_PERCENT == 50
MAX_POSITION_PERCENT == 80
RiskStep == 10
EquityStep == 35
MIN_SIZE == 1
FALLBACK_SIZE == 1000

Min(a, b) == IF a < b THEN a ELSE b
Max(a, b) == IF a > b THEN a ELSE b
Pow10(n) == CASE n = 0 -> 1 [] n = 1 -> 10 [] n = 2 -> 100 [] n = 3 -> 1000
              [] n = 4 -> 10000 [] n = 5 -> 100000 [] OTHER -> 1000000

\* MANUAL_LEVERAGE.get(symbol, 1.0)
MANUAL_LEVERAGE(sym) == IF sym \in {"BTC", "ETH", "HYPE", "SOL", "BNB"}
                        THEN 5 ELSE 1

\* lot_sizes.get(symbol, 0.01), in units of 1e-6
lot_sizes(sym) == CASE sym = "BTC" -> 10
                    [] sym = "HYPE" -> 1000000
                    [] OTHER -> 10000

SizingSymbols == Symbols
RiskPercents == {r \in {MIN_POSITION_PERCENT + RiskStep * k : k \in 0..3} :
                    r <= MAX_POSITION_PERCENT}
AccountInfos ==
    {[ok |-> FALSE, account_value |-> 0]} \cup
    {[ok |-> TRUE, account_value |-> EquityStep * k] : k \in (0 - 1)..MaxEquity}
\* a Lighter book price of zero is returned as it is; the Pacifica price is
\* never zero (a zero feed price is replaced by the static price)
LighterPrices == {0, 100, 64350, 65000, 65650}
PacificaPrices == {0 - 100, 100, 3500, 65000}
SizeDecimals == {2, 4, 5}

CalcInput(sym, risk, info, lp, pp, dec) ==
    [stage |-> "input", symbol |-> sym, risk_percent |-> risk,
     account_info |-> info, lighter_price |-> lp, pacifica_price |-> pp,
     size_decimals |-> dec,
     raised |-> FALSE, risk_amount |-> 0, target_notional |-> 0,
     pacifica_cap |-> 0, hedged_notional |-> 0,
     lighter_size |-> 0, pacifica_size |-> 0,
     pacifica_exact |-> [num |-> 0, den |-> 1],
     lighter_open |-> 0, pacifica_open |-> 0,
     lighter_recorded |-> 0, pacifica_recorded |-> 0,
     lighter_close |-> 0, pacifica_close |-> 0]

\* ---- price retrieval ----
\* DEFAULT_SLIPPAGE, in percent
DEFAULT_SLIPPAGE == 1
\* the best price of the Lighter book as price_scaled, 0 - 1 for an empty side
BookPrices == {0 - 1, 0, 1, 50, 99, 100, 101, 6435000, 6500000}
\* the answer of the Pacifica feed in cents; 0 stands for None and for a
\* price of zero, which the caller treats alike
WebsocketPrices == {0, 25, 10000, 350000, 6500000}

LighterQuoteInput(price, is_ask) ==
    [stage |-> "quote_input", venue |-> "lighter", symbol |-> "BTC",
     raw |-> price, is_ask |-> is_ask, raises |-> FALSE,
     has_quote |-> FALSE, adjusted |-> FALSE, fallback |-> FALSE, quote |-> 0]

PacificaQuoteInput(sym, price, is_ask, raises) ==
    [stage |-> "quote_input", venue |-> "pacifica", symbol |-> sym,
     raw |-> price, is_ask |-> is_ask, raises |-> raises,
     has_quote |-> FALSE, adjusted |-> FALSE, fallback |-> FALSE, quote |-> 0]

\* ---- configuration ----
\* the keys of MANUAL_LEVERAGE and of the lot_sizes table
LeverageKeys == {"BTC", "ETH", "HYPE", "SOL", "BNB"}
LotSizeKeys == {"BTC", "ETH", "HYPE", "SOL", "BNB"}
\* values of the ALLOWED_TRADING_PAIRS setting, some with a pair that has no
\* leverage and no lot entry
PairSettings == SUBSET {"BTC", "ETH", "XRP"}

ConfigInput(pairs) ==
    [stage |-> "config", pairs |-> pairs, errors |-> {}, symbol |-> "none"]

SizingInit ==
    /\ ProgramInit
    /\ \/ \E sym \in SizingSymbols, risk \in RiskPercents,
             info \in AccountInfos, lp \in LighterPrices,
             pp \in PacificaPrices, dec \in SizeDecimals :
            calc = CalcInput(sym, risk, info, lp, pp, dec)
       \/ \E pairs \in PairSettings : calc = ConfigInput(pairs)
       \/ \E price \in BookPrices, is_ask \in BOOLEAN :
            calc = LighterQuoteInput(price, is_ask)
       \/ \E sym \in SizingSymbols, price \in WebsocketPrices,
             is_ask \in BOOLEAN, raises \in BOOLEAN :
            calc = PacificaQuoteInput(sym, price, is_ask, raises)

\* lines 524-533: the cap from the Pacifica account, or the fallback
PacificaCap(info, leverage) ==
    IF info.ok THEN info.account_value * leverage * 90
               ELSE ACCOUNT_BALANCE * 100 * leverage

\* lines 542-545: the 80% exposure ceiling
ApplyMaxExposureNone(notional) == notional
ApplyMaxExposure(notional) ==
    LET max_affordable_notional == ACCOUNT_BALANCE * 80 IN
    IF notional > max_affordable_notional THEN max_affordable_notional
                                          ELSE notional

\* notional / price as a size in units of 1e-6
SizeOf(notional, price) ==
    IF price > 0 THEN (notional * 10000) \div price
                 ELSE 0 - ((notional * 10000) \div (0 - price))

\* the same quotient kept exactly, as a fraction of 1e-6 units, with the
\* minimum size of line 550 applied
ExactSizeOf(notional, price) ==
    LET num == IF price > 0 THEN notional * 10000 ELSE 0 - (notional * 10000)
        den == Abs(price)
    IN IF num >= den * MIN_SIZE THEN [num |-> num, den |-> den]
                                ELSE [num |-> MIN_SIZE, den |-> 1]

CalculateHedgedPositionSizes ==
    /\ calc.stage = "input"
    /\ LET leverage == MANUAL_LEVERAGE(calc.symbol)
           risk_amount == calc.risk_percent * ACCOUNT_BALANCE
           target_notional == risk_amount * leverage
           pacifica_cap == PacificaCap(calc.account_info, leverage)
           hedged_notional ==
               ApplyMaxExposure(Min(target_notional, pacifica_cap))
       IN IF calc.lighter_price = 0 \/ calc.pacifica_price = 0
          THEN calc' = [calc EXCEPT !.stage = "sized", !.raised = TRUE,
                                    !.risk_amount = risk_amount,
                                    !.target_notional = target_notional,
                                    !.pacifica_cap = pacifica_cap,
                                    !.lighter_size = FALLBACK_SIZE,
                                    !.pacifica_size = FALLBACK_SIZE,
                                    !.pacifica_exact =
                                        [num |-> FALLBACK_SIZE, den |-> 1]]
          ELSE calc' = [calc EXCEPT
                  !.stage = "sized",
                  !.risk_amount = risk_amount,
                  !.target_notional = target_notional,
                  !.pacifica_cap = pacifica_cap,
                  !.hedged_notional = hedged_notional,
                  !.lighter_size =
                      Max(SizeOf(hedged_notional, calc.lighter_price),
                          MIN_SIZE),
                  !.pacifica_size =
                      Max(SizeOf(hedged_notional, calc.pacifica_price),
                          MIN_SIZE),
                  !.pacifica_exact =
                      ExactSizeOf(hedged_notional, calc.pacifica_price)]
    /\ UNCHANGED <<pc, running, signalled, configVars, ledgerVars, statsVars,
                   cycleLocals, caller, sweepVars, lastOrder, trace,
                   statsAtStart, tradesAtStart, cycles, venue_open>>

\* int(size * 10 ** size_decimals)
LighterScaled(size, size_decimals) == size \div Pow10(6 - size_decimals)

\* round(): to the nearest integer, ties to the even one
RoundDown(n, d) == n \div d
RoundHalfEven(n, d) ==
    LET q == n \div d
        r == n % d
    IN IF 2 * r < d THEN q
       ELSE IF 2 * r > d THEN q + 1
       ELSE IF q % 2 = 0 THEN q ELSE q + 1

\* lines 1033-1037: round the size, a fraction of 1e-6 units, to the lot,
\* at least one lot
RoundToLot(size, lot_size) ==
    Max(RoundHalfEven(size.num, size.den * lot_size) * lot_size, lot_size)

\* the amounts of the two open orders and what the ledger records for them
PlaceOpenOrders ==
    /\ calc.stage = "sized"
    /\ LET rounded_amount == RoundToLot(calc.pacifica_exact,
                                        lot_sizes(calc.symbol))
       IN calc' = [calc EXCEPT
              !.stage = "opened",
              !.lighter_open = LighterScaled(calc.lighter_size,
                                             calc.size_decimals),
              !.lighter_recorded = calc.lighter_size,
              !.pacifica_open = rounded_amount,
              !.pacifica_recorded = rounded_amount]
    /\ UNCHANGED <<pc, running, signalled, configVars, ledgerVars, statsVars,
                   cycleLocals, caller, sweepVars, lastOrder, trace,
                   statsAtStart, tradesAtStart, cycles, venue_open>>

\* int(base_amount_scaled * 1.01)
WithBuffer(base_amount_scaled) == (base_amount_scaled * 101) \div 100

LighterCloseAmount(amount, size_decimals) ==
    WithBuffer(LighterScaled(amount, size_decimals))

PacificaCloseAmount(amount) == amount

\* the amounts of the two close orders of the close step
PlaceCloseOrders ==
    /\ calc.stage = "opened"
    /\ calc' = [calc EXCEPT
           !.stage = "closed",
           !.lighter_close = LighterCloseAmount(calc.lighter_recorded,
                                                calc.size_decimals),
           !.pacifica_close = PacificaCloseAmount(calc.pacifica_recorded)]
    /\ UNCHANGED <<pc, running, signalled, configVars, ledgerVars, statsVars,
                   cycleLocals, caller, sweepVars, lastOrder, trace,
                   statsAtStart, tradesAtStart, cycles, venue_open>>

\* lines 421-426: int(price_scaled * (1 -/+ DEFAULT_SLIPPAGE))
ApplySlippageUnsigned(price_scaled, is_ask) ==
    (price_scaled * (100 + DEFAULT_SLIPPAGE)) \div 100
ApplySlippage(price_scaled, is_ask) ==
    IF is_ask THEN (price_scaled * (100 - DEFAULT_SLIPPAGE)) \div 100
              ELSE (price_scaled * (100 + DEFAULT_SLIPPAGE)) \div 100

\* _get_lighter_market_price: None for an empty book side, else the best
\* price with the slippage tolerance applied
GetLighterMarketPrice ==
    /\ calc.stage = "quote_input" /\ calc.venue = "lighter"
    /\ calc' = IF calc.raw < 0
               THEN [calc EXCEPT !.stage = "quoted"]
               ELSE [calc EXCEPT !.stage = "quoted", !.has_quote = TRUE,
                                 !.adjusted = TRUE,
                                 !.quote = ApplySlippage(calc.raw,
                                                         calc.is_ask)]
    /\ UNCHANGED <<pc, running, signalled, configVars, ledgerVars, statsVars,
                   cycleLocals, caller, sweepVars, lastOrder, trace,
                   statsAtStart, tradesAtStart, cycles, venue_open>>

\* lines 444-450: mock_prices.get(symbol, 100.0), in cents
mock_prices(sym) == CASE sym = "BTC" -> 6500000
                      [] sym = "ETH" -> 350000
                      [] sym = "HYPE" -> 25
                      [] sym = "SOL" -> 15000
                      [] sym = "BNB" -> 60000
                      [] OTHER -> 10000

\* what _get_pacifica_market_price returns: a bare price
PacificaPriceOf(sym, price, raises) ==
    IF raises THEN 10000
    ELSE IF price # 0 THEN price
    ELSE mock_prices(sym)

\* _get_pacifica_market_price: the feed's price as it is, or a static price
GetPacificaMarketPrice ==
    /\ calc.stage = "quote_input" /\ calc.venue = "pacifica"
    /\ calc' = [calc EXCEPT
           !.stage = "quoted", !.has_quote = TRUE,
           !.fallback = calc.raises \/ calc.raw = 0,
           !.quote = PacificaPriceOf(calc.symbol, calc.raw, calc.raises)]
    /\ UNCHANGED <<pc, running, signalled, configVars, ledgerVars, statsVars,
                   cycleLocals, caller, sweepVars, lastOrder, trace,
                   statsAtStart, tradesAtStart, cycles, venue_open>>

\* validate_config, lines 204-213: the errors found in the trading pairs
NoErrors(pairs) == {}
ConfigErrors(pairs) ==
    (IF pairs = {} THEN {"empty"} ELSE {}) \cup
    {pair \in pairs : pair \notin LeverageKeys}

\* validate_config() at import: any error raises ValueError and the program
\* does not start
ValidateConfig ==
    /\ calc.stage = "config"
    /\ LET errors == ConfigErrors(calc.pairs)
       IN calc' = IF errors # {}
                  THEN [calc EXCEPT !.stage = "config_error",
                                    !.errors = errors]
                  ELSE [calc EXCEPT !.stage = "config_ok"]
    /\ UNCHANGED <<pc, running, signalled, configVars, ledgerVars, statsVars,
                   cycleLocals, caller, sweepVars, lastOrder, trace,
                   statsAtStart, tradesAtStart, cycles, venue_open>>

\* line 883: symbol = random.choice(ALLOWED_TRADING_PAIRS)
ChooseSymbol ==
    /\ calc.stage = "config_ok"
    /\ \E sym \in calc.pairs :
         calc' = [calc EXCEPT !.stage = "trading", !.symbol = sym]
    /\ UNCHANGED <<pc, running, signalled, configVars, ledgerVars, statsVars,
                   cycleLocals, caller, sweepVars, lastOrder, trace,
                   statsAtStart, tradesAtStart, cycles, venue_open>>

SizingNext ==
    \/ ValidateConfig
    \/ ChooseSymbol
    \/ CalculateHedgedPositionSizes
    \/ PlaceOpenOrders
    \/ PlaceCloseOrders
    \/ GetLighterMarketPrice
    \/ GetPacificaMarketPrice

SizingSpec == SizingInit /\ [][SizingNext]_vars

\* ---- properties ----
Count(seq, e) == Cardinality({i \in DOMAIN seq : seq[i] = e})
Occurs(seq, e) == \E i \in DOMAIN seq : seq[i] = e
CyclePcs == {"c_details", "c_lighter_price", "c_pacifica_price",
             "open_lighter", "open_pacifica", "branch", "record_success",
             "wait"}
InCycle == pc \in CyclePcs \/ caller \in {"cycle_ok", "cycle_failed"}
PartialFill == lighter_success # pacifica_success
LedgerEmpty == ~lighter_position.present /\ ~pacifica_position.present

\* C1: in every trading cycle the side assigned to Lighter and the side
\* assigned to Pacifica are opposite: one is buy and the other is sell,
\* for every choice of symbol and side.
C1_OppositeSides ==
    InCycle => /\ lighter_side \in {"buy", "sell"}
               /\ pacifica_side \in {"buy", "sell"}
               /\ lighter_side # pacifica_side
C1_Witness ==
    pc = "open_pacifica" /\ lighter_side = "sell" /\ pacifica_side = "buy"

\* C2: a cycle whose Lighter open was accepted and whose Pacifica open
\* failed ends with exactly one compensating close order issued for the
\* Lighter leg and none for Pacifica, also when a market-detail or quote
\* lookup fails during the close.
C2_OneCompensatingClose ==
    (pc = "wait" /\ lighter_success /\ ~pacifica_success)
        => /\ Count(trace, "close_lighter") = 1
           /\ Count(trace, "close_pacifica") = 0

C4_HoldOnlyWhenBothOpen ==
    [][/\ Occurs(trace', "hold") => (lighter_success' /\ pacifica_success')
       /\ (pc = "branch" /\ pc' # pc /\ PartialFill)
             => (pc' = "ca_lighter" /\ trace' = trace)]_vars
C4_Witness ==
    /\ pc = "ca_pacifica" /\ caller = "cycle_failed"
    /\ ~lighter_success /\ pacifica_success
    /\ ~Occurs(trace, "hold")

\* C5: every close order (in-cycle or compensating close, startup sweep
\* close, flip retry, Pacifica probe) is reduce-only, and only open orders
\* are sent with reduce-only off.
C5_ClosesAreReduceOnly ==
    lastOrder.venue # "none" =>
        (lastOrder.reduce_only <=> lastOrder.purpose # "open")
C5_Witness ==
    /\ lastOrder.venue = "lighter" /\ lastOrder.purpose = "close"
    /\ lastOrder.reduce_only
    /\ pc = "ca_pacifica" /\ caller = "cycle_failed"

\* C6: for one position the close procedure issues at most two close orders
\* (the first close and at most one flip retry), the flip retry is never
\* retried, and every step of the procedure moves it towards its end.
ProcRank(p) ==
    CASE p = "swL_close" -> 0
      [] p = "swL_verify" -> 1
      [] p = "swL_flip" -> 2
      [] OTHER -> 3
C7_RetryOppositeToFirst ==
    (cp.active /\ cp.flips = 1) => cp.retrySide # cp.firstSide

\* C8: after the flip retry the venue is queried a second time, and the
\* procedure reports Closed only when the venue reported no remaining
\* position above epsilon.
C8_ClosedOnlyWhenVerified ==
    /\ (cp.active /\ pc = "swL_next" /\ cp.flips = 1) => cp.verifies = 2
    /\ (cp.active /\ cp.report = "Closed") => ~IsOpen(cp.remaining)

\* C9: in the close step of a cycle every ledger position that got a close
\* order is then verified against the venue (delay, re-query, flip retry if
\* a position remains).
C9_CycleCloseVerified ==
    (pc = "ca_clear" /\ caller \in {"cycle_ok", "cycle_failed"}) =>
        /\ Occurs(trace, "close_lighter") => Occurs(trace, "verify_lighter")
        /\ Occurs(trace, "close_pacifica") => Occurs(trace, "verify_pacifica")

\* C10: after every execution of the close step the ledger holds no position
\* for either venue, whatever the outcome of the close orders.
C10_LedgerEmptyAfterClose ==
    [][(pc = "ca_clear" /\ pc' # pc) => LedgerEmpty']_vars
C10_Witness ==
    /\ pc = "wait" /\ lighter_success /\ pacifica_success
    /\ Occurs(trace, "clear") /\ ~Occurs(trace, "close_lighter")
    /\ LedgerEmpty

\* C11: when a shutdown signal arrives while a cycle is in flight, the
\* cycle still runs to the end of its close step: the per-venue close is
\* called for every position recorded in the ledger, the ledger is cleared
\* before the cycle is left, and the ledger is empty when the process exits.
C11_InFlightCycleCompletes ==
    [][/\ (InCycle /\ ~running')
             => \/ InCycle'
                \/ /\ pc = "wait" /\ pc' = "loop" /\ LedgerEmpty
                   /\ (lighter_success \/ pacifica_success)
                         => Occurs(trace, "clear")
                   /\ lighter_success
                         => Occurs(trace, "attempt_close_lighter")
                   /\ pacifica_success => Occurs(trace, "close_pacifica")
       /\ pc' = "done" => LedgerEmpty']_vars
C11_Witness ==
    /\ pc = "wait" /\ signalled /\ ~running
    /\ lighter_success /\ pacifica_success
    /\ Occurs(trace, "hold") /\ Occurs(trace, "close_lighter")
    /\ Occurs(trace, "close_pacifica") /\ Occurs(trace, "clear")
    /\ LedgerEmpty

\* C12: once a shutdown signal has been delivered (at any moment, venue
\* initialization and the startup sweep included), no further trading cycle
\* is started.
C12_SignalStopsLoop ==
    [][signalled => cycles' = cycles]_vars

\* C13: no failure inside a trading cycle ends the main loop: a cycle is
\* left only through the inter-cycle wait back to the top of the loop, and
\* the loop is left only when the running flag has been cleared.
C13_CycleFailureKeepsLoop ==
    [][/\ (InCycle /\ ~InCycle') => (pc = "wait" /\ pc' = "loop")
       /\ (pc = "loop" /\ pc' # pc /\ running) => InCycle'
       /\ (pc = "loop" /\ pc' = "cleanup_run") => ~running]_vars
C13_Witness ==
    /\ cycles = 2 /\ InCycle /\ running
    /\ statsAtStart.failed_cycles = 1 /\ statsAtStart.successful_cycles = 0

\* C14: if the initialization of either venue fails, the cycle loop never
\* starts: no startup sweep, no trading cycle and no order of any kind; the
\* run goes straight to cleanup and exit.
ExitPcs == {"cleanup_run", "cleanup_main", "ca_lighter", "ca_pacifica",
            "ca_clear", "done"}
C14_InitFailureIsFatal ==
    init_state = "failed" =>
        /\ pc \in ExitPcs /\ ~InCycle
        /\ cycles = 0 /\ ~running
        /\ ~cp.active /\ ~probe.active
        /\ lastOrder = NoOrder
C14_Witness ==
    /\ init_state = "failed" /\ pc = "done"
    /\ lighter_available_markets # {}

\* C15: whenever a quote needed by the cycle is unavailable (at the quoting
\* step or when the price is fetched again while placing the Lighter order)
\* no open order is placed on either venue in that cycle.
C15_NoOpenWithoutQuote ==
    (InCycle /\ Occurs(trace, "quote_unavailable"))
        => /\ ~Occurs(trace, "open_lighter")
           /\ ~Occurs(trace, "open_pacifica")

\* C16 (as claimed): every cycle that fails, in quoting, sizing or opening,
\* passes through the close step (ledger clear) before it ends.
CycleSucceeded == lighter_success /\ pacifica_success
C16_FailedCycleCloses ==
    (pc = "wait" /\ ~CycleSucceeded) => Occurs(trace, "clear")

\* C16 (amended): a cycle that reached the opening step and failed there
\* passes through the close step before it ends; a cycle that fails before
\* the opening step (market not found, market details or Lighter quote
\* unavailable) ends without the close step, having placed no order and
\* with the ledger empty.
C16_OpeningFailureCloses ==
    pc = "wait" =>
        /\ Occurs(trace, "clear") <=> Occurs(trace, "open_pacifica")
        /\ ~Occurs(trace, "clear")
              => /\ LedgerEmpty
                 /\ ~Occurs(trace, "open_lighter")
                 /\ ~lighter_success /\ ~pacifica_success
C16_Witness ==
    /\ pc = "wait" /\ ~lighter_success /\ pacifica_success
    /\ Occurs(trace, "close_pacifica") /\ Occurs(trace, "clear")
    /\ trace[Len(trace)] = "clear"

\* C17: after a cycle in which the Lighter open was accepted and the Pacifica
\* open was not, the ledger is empty, the cycle counts as failed and not as
\* successful, Lighter has one more successful trade and Pacifica one more
\* failed trade.
C17_PartialFailureStats ==
    (pc = "wait" /\ lighter_success /\ ~pacifica_success) =>
        /\ LedgerEmpty
        /\ cycle_stats.failed_cycles = statsAtStart.failed_cycles + 1
        /\ cycle_stats.successful_cycles = statsAtStart.successful_cycles
        /\ lighter_stats.trades = tradesAtStart.lighter.trades + 1
        /\ lighter_stats.successful = tradesAtStart.lighter.successful + 1
        /\ lighter_stats.failed = tradesAtStart.lighter.failed
        /\ pacifica_stats.trades = tradesAtStart.pacifica.trades + 1
        /\ pacifica_stats.failed = tradesAtStart.pacifica.failed + 1
        /\ pacifica_stats.successful = tradesAtStart.pacifica.successful
C17_Witness ==
    /\ pc = "wait" /\ lighter_success /\ ~pacifica_success
    /\ Occurs(trace, "attempt_close_lighter") /\ Occurs(trace, "clear")
    /\ lighter_stats.successful = 1 /\ pacifica_stats.failed = 1

\* C18: the outcome of a cycle is recorded exactly once: a finished cycle adds
\* one to the total, and one to either the successful or the failed counter,
\* never to both.
C18_CycleRecordedOnce ==
    pc = "wait" =>
        /\ cycle_stats.total_cycles = statsAtStart.total_cycles + 1
        /\ IF CycleSucceeded
             THEN /\ cycle_stats.successful_cycles
                        = statsAtStart.successful_cycles + 1
                  /\ cycle_stats.failed_cycles = statsAtStart.failed_cycles
             ELSE /\ cycle_stats.failed_cycles
                        = statsAtStart.failed_cycles + 1
                  /\ cycle_stats.successful_cycles
                        = statsAtStart.successful_cycles

\* C19: every failed open attempt on a venue adds one to that venue's trade
\* counter and one to its failed counter.
C19_FailedOpenCounted ==
    /\ (pc = "open_pacifica" /\ ~lighter_success) =>
           /\ lighter_stats.trades = tradesAtStart.lighter.trades + 1
           /\ lighter_stats.failed = tradesAtStart.lighter.failed + 1
    /\ (pc = "branch" /\ ~pacifica_success) =>
           /\ pacifica_stats.trades = tradesAtStart.pacifica.trades + 1
           /\ pacifica_stats.failed = tradesAtStart.pacifica.failed + 1

\* C20: a ledger entry is written only after the venue accepted the open
\* order of the running cycle, is never modified afterwards, and is removed
\* only by the ledger clear at the end of the close step.
C20_LedgerWriteOnceClearOnly ==
    [][/\ lighter_position' # lighter_position =>
             \/ /\ ~lighter_position.present /\ lighter_position'.present
                /\ pc = "open_lighter" /\ lighter_success'
                /\ lastOrder' = LighterOpenOrder(symbol, lighter_side)
                /\ lighter_position'
                      = record_position(symbol, lighter_side, lighter_size)
             \/ /\ lighter_position.present /\ ~lighter_position'.present
                /\ pc = "ca_clear"
       /\ pacifica_position' # pacifica_position =>
             \/ /\ ~pacifica_position.present /\ pacifica_position'.present
                /\ pc = "open_pacifica" /\ pacifica_success'
                /\ lastOrder' = PacificaOpenOrder(symbol, pacifica_side)
                /\ pacifica_position'
                      = record_position(symbol, pacifica_side, pacifica_size)
             \/ /\ pacifica_position.present /\ ~pacifica_position'.present
                /\ pc = "ca_clear"]_vars
C20_Witness ==
    /\ pc = "ca_clear" /\ caller = "cycle_ok"
    /\ lighter_position.present /\ pacifica_position.present
    /\ lighter_position.side # pacifica_position.side

\* C21: the ledger holds at most one position per venue and the engine never
\* pyramids: when an open order is issued to a venue the ledger holds no
\* position for that venue, and the ledger is empty at the start of every
\* cycle, after any sequence of successful, failed and aborted cycles.
C21_NoPyramiding ==
    /\ pc \in {"loop", "c_details", "c_lighter_price", "c_pacifica_price",
               "open_lighter"} => LedgerEmpty
    /\ pc = "open_pacifica" => ~pacifica_position.present
    /\ lighter_position.present =>
           /\ lighter_position.symbol = symbol
           /\ lighter_position.side = lighter_side
    /\ pacifica_position.present =>
           /\ pacifica_position.symbol = symbol
           /\ pacifica_position.side = pacifica_side
C21_Witness ==
    /\ pc = "open_lighter" /\ cycles = 2 /\ LedgerEmpty
    /\ lighter_stats.successful = 1 /\ pacifica_stats.failed = 1
    /\ cycle_stats.failed_cycles = 2

\* C22: in the close step a failure while closing the position of one venue
\* (error result, exception, missing market data or quote) never prevents
\* the close order for the recorded position of the other venue: the Lighter
\* close always hands over to the Pacifica close, which issues its order for
\* every recorded Pacifica position, and only then is the ledger cleared.
C22_ClosesAreIndependent ==
    [][/\ (pc = "ca_lighter" /\ pc' # pc) =>
              /\ pc' = "ca_pacifica"
              /\ UNCHANGED ledgerVars
              /\ lighter_position.present =>
                    Count(trace', "attempt_close_lighter")
                        = Count(trace, "attempt_close_lighter") + 1
       /\ (pc = "ca_pacifica" /\ pc' # pc) =>
              /\ pc' = "ca_clear"
              /\ UNCHANGED ledgerVars
              /\ pacifica_position.present =>
                    /\ Count(trace', "close_pacifica")
                          = Count(trace, "close_pacifica") + 1
                    /\ lastOrder'.venue = "pacifica"
                    /\ lastOrder'.purpose = "close"
                    /\ lastOrder'.symbol = pacifica_position.symbol]_vars
C22_Witness ==
    /\ pc = "ca_clear"
    /\ lighter_position.present /\ pacifica_position.present
    /\ Occurs(trace, "attempt_close_lighter")
    /\ ~Occurs(trace, "close_lighter")
    /\ Occurs(trace, "close_pacifica")
    /\ lastOrder.venue = "pacifica" /\ lastOrder.purpose = "close"

\* C23: when the venue rejects or errors a close order, the close procedure
\* still proceeds to the verification step (and from there, if the venue
\* reports a remaining position, to the single flip retry).
C23_RejectedCloseIsVerified ==
    [][(pc = "swL_close" /\ cp'.closeOrders = cp.closeOrders + 1)
           => pc' = "swL_verify"]_vars

\* C24: for every position recorded in the ledger the close order of the
\* close step is issued on the same venue and symbol and in the direction
\* inverse to the recorded side: a recorded buy is closed with a sell (ask),
\* a recorded sell with a buy (bid).
InverseOf(side) == IF side = "buy" THEN "ask" ELSE "bid"
C24_CloseInverseOfRecordedSide ==
    [][/\ Count(trace', "close_lighter") > Count(trace, "close_lighter") =>
              /\ lighter_position.present
              /\ lighter_position.side \in {"buy", "sell"}
              /\ lastOrder'.venue = "lighter"
              /\ lastOrder'.purpose = "close"
              /\ lastOrder'.symbol = lighter_position.symbol
              /\ lastOrder'.side = InverseOf(lighter_position.side)
       /\ Count(trace', "close_pacifica") > Count(trace, "close_pacifica") =>
              /\ pacifica_position.present
              /\ pacifica_position.side \in {"buy", "sell"}
              /\ lastOrder'.venue = "pacifica"
              /\ lastOrder'.purpose = "close"
              /\ lastOrder'.symbol = pacifica_position.symbol
              /\ lastOrder'.side = InverseOf(pacifica_position.side)]_vars
C24_Witness ==
    /\ pc = "ca_clear" /\ Occurs(trace, "close_lighter")
    /\ lighter_position.present /\ lighter_position.side = "sell"
    /\ pacifica_position.present /\ pacifica_position.side = "buy"
    /\ lastOrder = [venue |-> "pacifica", purpose |-> "close",
                    symbol |-> pacifica_position.symbol, side |-> "ask",
                    reduce_only |-> TRUE]

\* C25: for every close order of a ledger position, on either venue, the
\* close size is the recorded size increased by the fixed 1% buffer, and so
\* is never smaller than the size that was opened.
OnePercentMore(amount) == (amount * 101) \div 100
C25_CloseSizeHasBuffer ==
    calc.stage = "closed" =>
        /\ calc.lighter_close = OnePercentMore(calc.lighter_open)
        /\ calc.lighter_close >= calc.lighter_open
        /\ calc.pacifica_close = OnePercentMore(calc.pacifica_recorded)
        /\ calc.pacifica_close >= calc.pacifica_open

IndexOf(seq, e) == CHOOSE i \in DOMAIN seq : seq[i] = e
CloseStepOfCycle == caller \in {"cycle_ok", "cycle_failed"}
C27_OpensSequentialBeforeHold ==
    InCycle =>
        /\ pc \in {"c_details", "c_lighter_price", "c_pacifica_price",
                   "open_lighter"} =>
               /\ ~Occurs(trace, "open_lighter")
               /\ ~Occurs(trace, "open_pacifica")
        /\ pc = "open_pacifica" => ~Occurs(trace, "open_pacifica")
        /\ (Occurs(trace, "open_lighter") /\ Occurs(trace, "open_pacifica"))
               => IndexOf(trace, "open_lighter")
                      < IndexOf(trace, "open_pacifica")
        /\ Count(trace, "open_lighter") <= 1
        /\ Count(trace, "open_pacifica") <= 1
        /\ (Occurs(trace, "hold") \/ CloseStepOfCycle) =>
               /\ Occurs(trace, "open_pacifica")
               /\ pacifica_stats.trades = tradesAtStart.pacifica.trades + 1
               /\ lighter_success <=> Occurs(trace, "open_lighter")
                                      /\ lighter_stats.successful
                                          = tradesAtStart.lighter.successful + 1
               /\ pacifica_success <=> pacifica_stats.successful
                                          = tradesAtStart.pacifica.successful + 1
C27_Witness ==
    /\ pc = "branch" /\ lighter_success /\ ~pacifica_success
    /\ trace = <<"record_cycle_failed", "open_lighter", "open_pacifica">>
    /\ lastOrder.venue = "pacifica" /\ lastOrder.purpose = "open"

\* C28: before the first cycle the startup sweep runs exactly once when the
\* close-on-startup flag is set, Lighter positions first and the Pacifica
\* probing second; with the flag off no close order is issued at startup;
\* no open order is issued before the sweep has finished.
LighterSweepPcs == {"swL_query", "swL_next", "swL_close", "swL_verify",
                    "swL_flip"}
PacificaSweepPcs == {"swP_probe", "swP_test", "swP_opposite"}
StartupPcs == {"init_lighter", "init_pacifica", "check_existing",
               "set_running"} \cup LighterSweepPcs \cup PacificaSweepPcs
LastProbe(p) == /\ p.sym = Len(ALLOWED_TRADING_PAIRS)
                /\ p.side = "bid"
                /\ p.amt = Len(test_amounts)
C28_SweepOnceBeforeFirstCycle ==
    [][/\ pc \in StartupPcs =>
              /\ cycles = 0
              /\ ~Occurs(trace, "open_lighter")
              /\ ~Occurs(trace, "open_pacifica")
              /\ lastOrder.venue # "none" =>
                    /\ lastOrder.purpose \in {"sweep_close", "flip_retry",
                                              "probe", "probe_test",
                                              "probe_opposite"}
                    /\ lastOrder.reduce_only
                    /\ close_on_start
       /\ pc \in LighterSweepPcs \cup PacificaSweepPcs => close_on_start
       /\ (pc' = "swL_query" /\ pc # pc') => pc = "check_existing"
       /\ (pc' = "check_existing" /\ pc # pc') => pc = "init_pacifica"
       /\ (pc' = "init_pacifica" /\ pc # pc') => pc = "init_lighter"
       /\ pc' # "init_lighter" \/ pc = "init_lighter"
       /\ (pc \in LighterSweepPcs /\ pc' \notin LighterSweepPcs)
              => /\ pc' = "swP_probe" /\ open_positions = <<>>
                 /\ probe' = FirstProbe
       /\ pc \in LighterSweepPcs => ~probe.active
       /\ (pc \in PacificaSweepPcs /\ pc' \notin PacificaSweepPcs)
              => pc' = "set_running" /\ LastProbe(probe)
       /\ (pc' = "set_running" /\ pc # pc')
              => IF close_on_start THEN pc \in PacificaSweepPcs
                                   ELSE pc = "check_existing"
       /\ (pc' = "loop" /\ pc # pc') => pc \in {"set_running", "wait"}]_vars
C28_Witness ==
    /\ pc = "loop" /\ running /\ cycles = 0 /\ close_on_start
    /\ lastOrder.venue = "pacifica"
    /\ lastOrder.symbol = ALLOWED_TRADING_PAIRS[Len(ALLOWED_TRADING_PAIRS)]
    /\ ~probe.active /\ ~cp.active /\ open_positions = <<>>

\* C29: no close operation is retried indefinitely: the startup sweep,
\* including the Pacifica probing over the allowed symbols, both sides and
\* the amount ladder, issues a bounded number of orders (at most three per
\* probe, at most two per Lighter position) and always terminates, whatever
\* the venues answer.
InSweep == pc \in LighterSweepPcs \cup PacificaSweepPcs
ProbeIndex(p) ==
    ((p.sym - 1) * 2 + (IF p.side = "ask" THEN 0 ELSE 1)) * Len(test_amounts)
        + p.amt
C29_SweepTerminates ==
    /\ [][/\ pc = "swP_probe" => probe.orders = 0
          /\ pc = "swP_test" => probe.orders = 1
          /\ pc = "swP_opposite" => probe.orders = 2
          /\ (pc \in PacificaSweepPcs /\ pc' # pc) =>
                \/ /\ pc' \in {"swP_test", "swP_opposite"}
                   /\ ProbeIndex(probe') = ProbeIndex(probe)
                   /\ probe'.orders = probe.orders + 1
                \/ /\ pc' = "swP_probe"
                   /\ ProbeIndex(probe') = ProbeIndex(probe) + 1
                \/ /\ pc' = "set_running" /\ LastProbe(probe)
          /\ probe.active =>
                ProbeIndex(probe) <= Len(ALLOWED_TRADING_PAIRS) * 2
                                         * Len(test_amounts)
          /\ cp.active => cp.closeOrders <= 2
          /\ (pc \in LighterSweepPcs \ {"swL_query"})
                => Len(open_positions') <= Len(open_positions)
          /\ (pc = "swL_next" /\ pc' = "swL_close")
                => Len(open_positions') < Len(open_positions)]_vars
    /\ (InSweep ~> ~InSweep)
C29_Witness ==
    /\ pc = "set_running" /\ close_on_start
    /\ lastOrder.purpose = "probe_opposite"
    /\ lastOrder.symbol = ALLOWED_TRADING_PAIRS[Len(ALLOWED_TRADING_PAIRS)]

\* C30: for all inputs the notional used to size both legs never exceeds
\* 0.8 times the account balance and never exceeds the affordability cap:
\* 90% of the Pacifica equity times the leverage when the equity is
\* available, the account balance times the leverage otherwise.
AffordabilityCap(info, sym) ==
    IF info.ok THEN (info.account_value * 90) * MANUAL_LEVERAGE(sym)
               ELSE (ACCOUNT_BALANCE * 100) * MANUAL_LEVERAGE(sym)
Sized == calc.stage \in {"sized", "opened", "closed"}
C30_ExposureCeiling ==
    (Sized /\ ~calc.raised) =>
        /\ calc.hedged_notional * 10 <= ACCOUNT_BALANCE * 100 * 8
        /\ calc.hedged_notional
               <= AffordabilityCap(calc.account_info, calc.symbol)
        /\ calc.lighter_size > MIN_SIZE =>
               calc.lighter_size * calc.lighter_price
                   <= calc.hedged_notional * 10000
        /\ calc.pacifica_size > MIN_SIZE =>
               calc.pacifica_size * calc.pacifica_price
                   <= calc.hedged_notional * 10000
C30_Witness ==
    /\ calc.stage = "sized" /\ ~calc.raised
    /\ calc.account_info.ok
    /\ calc.pacifica_cap > calc.hedged_notional
    /\ calc.risk_percent * ACCOUNT_BALANCE * MANUAL_LEVERAGE(calc.symbol)
           > calc.hedged_notional
    /\ calc.hedged_notional = ACCOUNT_BALANCE * 80

\* C31: for all valid inputs (positive prices, configured symbol) the sizes
\* submitted in the two open orders have notionals size * price that differ
\* by at most one lot increment's worth of notional, after the Lighter
\* truncation to the size decimals and the Pacifica rounding to the lot with
\* its one-lot minimum.  One increment's worth is taken as the larger of the
\* Lighter size step and the Pacifica lot, each at its venue's price.
ValidSizing ==
    /\ calc.stage \in {"opened", "closed"}
    /\ ~calc.raised
    /\ calc.lighter_price > 0 /\ calc.pacifica_price > 0
LighterStep(size_decimals) == Pow10(6 - size_decimals)
LighterNotional ==
    calc.lighter_open * LighterStep(calc.size_decimals) * calc.lighter_price
PacificaNotional == calc.pacifica_open * calc.pacifica_price
OneLotWorth ==
    Max(LighterStep(calc.size_decimals) * calc.lighter_price,
        lot_sizes(calc.symbol) * calc.pacifica_price)
C31_NotionalMatching ==
    ValidSizing => Abs(LighterNotional - PacificaNotional) <= OneLotWorth

\* C32: for all inputs, a zero or negative price and any other degenerate
\* input included, the size of every open order submitted to either venue
\* is strictly positive: never a zero-size order.
C32_NoZeroSizeOrder ==
    calc.stage \in {"opened", "closed"} =>
        /\ calc.lighter_open > 0
        /\ calc.pacifica_open > 0

\* C33: with balance 500, risk 60%, BTC leverage 5 and price 65000 on both
\* venues, sizing yields risk amount 300, target notional 1500, capped
\* notional 400 and a BTC order size of 0.00615; in general the size is
\* min(target, cap, 0.8 * balance) / price rounded to the nearest lot, never
\* below one lot.
WorkedExample ==
    /\ ValidSizing
    /\ calc.symbol = "BTC" /\ calc.risk_percent = 60
    /\ calc.lighter_price = 65000 /\ calc.pacifica_price = 65000
    /\ calc.pacifica_cap >= ACCOUNT_BALANCE * 80

CappedNotional ==
    Min(Min(calc.target_notional, calc.pacifica_cap), ACCOUNT_BALANCE * 80)

NearestLot ==
    LET lot_size == lot_sizes(calc.symbol)
        owed == CappedNotional * 10000
        got == calc.pacifica_open * calc.pacifica_price
    IN \/ 2 * Abs(got - owed) <= lot_size * calc.pacifica_price
       \/ calc.pacifica_open = lot_size /\ owed <= lot_size * calc.pacifica_price

C33_SizingExample ==
    /\ WorkedExample =>
           /\ calc.risk_amount = 30000
           /\ calc.target_notional = 150000
           /\ calc.hedged_notional = 40000
           /\ calc.pacifica_open = 6150
    /\ ValidSizing =>
           /\ calc.hedged_notional = CappedNotional
           /\ NearestLot

C33_Witness == WorkedExample /\ calc.pacifica_open = 6150

\* C34: every quote returned with a slippage adjustment is the raw price
\* lowered by the tolerance on the ask side and raised by it on the bid
\* side, so it is never more favourable to the trader than the raw price.
\* Only Lighter quotes carry an adjustment; a Pacifica quote is the price
\* as it came.
Quoted == calc.stage = "quoted" /\ calc.has_quote

C36_FallbackIsMarked ==
    (Quoted /\ calc.venue = "pacifica" /\ calc.fallback) =>
        calc.quote # PacificaPriceOf(calc.symbol, calc.quote, FALSE)

\* C35: when the Pacifica feed times out, fails or has no entry for the
\* symbol, price retrieval returns the static price instead of unavailable:
\* the cycle is not aborted at the Pacifica price and proceeds to sizing and
\* to the opening of the Lighter leg.
C35_FeedFailureDoesNotAbort ==
    [][(pc = "c_pacifica_price" /\ pc' # pc) =>
           /\ pc' = "open_lighter"
           /\ lighter_size' \in Sizes /\ pacifica_size' \in Sizes
           /\ trace' \in {trace, Append(trace, "pacifica_fallback")}]_vars

C35_Witness ==
    \E i \in DOMAIN trace, j \in DOMAIN trace :
        /\ i < j
        /\ trace[i] = "pacifica_fallback"
        /\ trace[j] = "open_lighter"

\* C37: a missing leverage or lot-size entry for the traded symbol is
\* surfaced as an error where it is detected: the configuration is rejected,
\* and sizing and placement never run for a symbol whose leverage or lot
\* size would be a substituted default.
C37_MissingEntryIsAnError ==
    /\ calc.stage = "config_error" =>
           \/ calc.pairs = {}
           \/ \E pair \in calc.pairs : pair \notin LeverageKeys
    /\ calc.stage \in {"config_ok", "trading"} =>
           \A pair \in calc.pairs :
               pair \in LeverageKeys /\ pair \in LotSizeKeys
    /\ calc.stage = "trading" =>
           calc.symbol \in LeverageKeys /\ calc.symbol \in LotSizeKeys
    /\ Sized => calc.symbol \in LeverageKeys /\ calc.symbol \in LotSizeKeys

C37_Witness ==
    /\ calc.stage = "config_error"
    /\ "XRP" \in calc.pairs /\ "XRP" \in calc.errors

\* C38: the engine never issues an open order to a venue on which a
\* position opened by an earlier cycle is still open: after any sequence of
\* cycles, rejected or skipped closes included, each venue holds at most the
\* exposure of one cycle's leg.
C38_NoOpenOverOpenLeg ==
    /\ pc = "open_lighter" => venue_open.lighter = 0
    /\ pc = "open_pacifica" => venue_open.pacifica = 0
    /\ venue_open.lighter <= 1
    /\ venue_open.pacifica <= 1

\* C39: a cycle is counted as successful if and only if both open orders
\* were accepted; whether the close orders at the end of the hold were
\* accepted, rejected or skipped does not change the recorded outcome.
CountedSuccessful ==
    cycle_stats.successful_cycles = statsAtStart.successful_cycles + 1
NotCountedSuccessful ==
    cycle_stats.successful_cycles = statsAtStart.successful_cycles

C39_SuccessIffBothOpensAccepted ==
    pc = "wait" =>
        /\ CycleSucceeded => CountedSuccessful
        /\ ~CycleSucceeded => NotCountedSuccessful

C39_Witness ==
    /\ pc = "wait"
    /\ CycleSucceeded /\ CountedSuccessful
    /\ venue_open.lighter > 0

\* C40: cleanup runs twice on exit, and the second run issues no close order
\* because the ledger is empty when it starts: no position receives a close
\* order from both runs.
InSecondCleanup == pc = "cleanup_main" \/ caller = "cleanup_main"
CloseEvents == {"attempt_close_lighter", "close_lighter", "close_pacifica"}

C40_SecondCleanupIssuesNoOrder ==
    [][InSecondCleanup =>
           /\ ~lighter_position.present /\ ~pacifica_position.present
           /\ lastOrder' = lastOrder
           /\ venue_open' = venue_open
           /\ \A e \in CloseEvents : ~Occurs(trace', e)]_vars

C40_Witness ==
    /\ pc = "done"
    /\ trace = <<"clear">>
    /\ cycle_stats.successful_cycles > 0
    /\ ~lighter_position.present /\ ~pacifica_position.present

====
